---- MODULE Spec2Model ----
(***************************************************************************)
(* musiccharts: the chord formatter (data_processing.format_line), the key  *)
(* validator (data_processing.validate_keys) and the per-key driver loop    *)
(* (cli.main).                                                              *)
(*                                                                          *)
(* Text is a sequence of one-character strings, so that str.replace,        *)
(* str.split, len() and rstrip() are computed character by character.       *)
(* CHORDS and the compiled patterns live in musiccharts/data_definitions.py; *)
(* the definitions that stand for them follow the design document.          *)
(***************************************************************************)
EXTENDS Integers, Sequences, FiniteSets, TLC

VARIABLES
    fl,                     \* the frame of one format_line call
    pc,                     \* position of cli.main
    keys,                   \* main: args.keys.split(",")
    file_contents,          \* main: the lines read from the chart
    kidx,                   \* main: position of "for key in keys"
    lidx,                   \* main: position of "for line in file_contents"
    i,                      \* main: i
    next_line_after_intro,  \* main: next_line_after_intro
    formatted_lines,        \* main: formatted_lines
    chord_errors,           \* main: chord_errors
    calls,                  \* arguments of every format_line call main made
    stdout,                 \* what main and validate_keys printed
    documents               \* one entry per process_document call

vars == << fl, pc, keys, file_contents, kidx, lidx, i, next_line_after_intro,
           formatted_lines, chord_errors, calls, stdout, documents >>

mainVars == << pc, keys, file_contents, kidx, lidx, i, next_line_after_intro,
               formatted_lines, chord_errors, calls, stdout, documents >>

-----------------------------------------------------------------------------
(* Bounds of the model.                                                     *)

MaxSegs  == 3    \* a line given to format_line is at most this many segments
MaxLines == 2    \* lines of a chart given to main
MaxKeys  == 2    \* entries of the key list given to main

-----------------------------------------------------------------------------
(* Python str operations, on sequences of characters.                       *)

Max(a, b) == IF a >= b THEN a ELSE b

Spaces(n) == [j \in 1..Max(n, 0) |-> " "]

\* s[p:p+len(t)] == t
OccursAt(s, t, p) ==
    /\ p >= 1
    /\ p + Len(t) - 1 <= Len(s)
    /\ \A j \in 1..Len(t) : s[p + j - 1] = t[j]

\* t in s
Contains(s, t) == \E p \in 1..(Len(s) + 1) : OccursAt(s, t, p)

RECURSIVE ReplaceFrom(_, _, _, _)
ReplaceFrom(s, old, new, p) ==
    IF p > Len(s) THEN << >>
    ELSE IF OccursAt(s, old, p)
         THEN new \o ReplaceFrom(s, old, new, p + Len(old))
         ELSE << s[p] >> \o ReplaceFrom(s, old, new, p + 1)

\* s.replace(old, new): every non-overlapping occurrence, left to right.
\* old is never empty where format_line calls it.
Replace(s, old, new) == ReplaceFrom(s, old, new, 1)

RECURSIVE CountFrom(_, _, _)
CountFrom(s, t, p) ==
    IF p > Len(s) THEN 0
    ELSE IF OccursAt(s, t, p) THEN 1 + CountFrom(s, t, p + Len(t))
         ELSE CountFrom(s, t, p + 1)

\* s.count(t), t not empty
Count(s, t) == CountFrom(s, t, 1)

IsSpaceChar(c) == c \in {" ", "\n", "\t"}

RECURSIVE RStrip(_)
\* s.rstrip()
RStrip(s) ==
    IF s = << >> THEN s
    ELSE IF IsSpaceChar(s[Len(s)]) THEN RStrip(SubSeq(s, 1, Len(s) - 1))
         ELSE s

\* s.replace(c, "") for a single character c
Without(s, c) == SelectSeq(s, LAMBDA x : x # c)

\* position of the first c in s at or after p, Len(s)+1 when there is none
RECURSIVE FindChar(_, _, _)
FindChar(s, c, p) ==
    IF p > Len(s) THEN Len(s) + 1
    ELSE IF s[p] = c THEN p ELSE FindChar(s, c, p + 1)

RECURSIVE SplitFrom(_, _, _)
SplitFrom(s, c, p) ==
    LET q == FindChar(s, c, p)
    IN  IF q > Len(s) THEN << SubSeq(s, p, Len(s)) >>
        ELSE << SubSeq(s, p, q - 1) >> \o SplitFrom(s, c, q + 1)

\* s.split(c) for a single character c
Split(s, c) == SplitFrom(s, c, 1)

RECURSIVE Join(_)
\* "".join(parts)
Join(parts) == IF parts = << >> THEN << >> ELSE Head(parts) \o Join(Tail(parts))

-----------------------------------------------------------------------------
(* Markup strings written by format_line.                                   *)

HFILL_TEXTBF == << "\\", "h", "f", "i", "l", "l", "{",
                   "\\", "t", "e", "x", "t", "b", "f", "{" >>
TEXTBF       == << "\\", "t", "e", "x", "t", "b", "f", "{" >>
UNDERLINE_BIGTITLE ==
    << "\\", "u", "n", "d", "e", "r", "l", "i", "n", "e", "{",
       "\\", "b", "i", "g", "t", "i", "t", "l", "e", "{" >>
TS           == << "\\", "t", "s", "{" >>
THIN         == << "{", "\\", "t", "h", "i", "n" >>
CLOSE1       == << "}" >>
CLOSE2       == << "}", "}" >>

-----------------------------------------------------------------------------
(* musiccharts/data_definitions.py: CHORDS and the compiled patterns.       *)
(* Written from the design document (Key, Translation Table, Chord          *)
(* Tokenizer, Line Formatter phases).                                       *)

LetteredKeys == << "C", "Db", "D", "Eb", "E", "F", "Gb", "G", "Ab", "A", "Bb", "B" >>

NoteNames == << <<"C">>, <<"D","b">>, <<"D">>, <<"E","b">>, <<"E">>, <<"F">>,
                <<"G","b">>, <<"G">>, <<"A","b">>, <<"A">>, <<"B","b">>, <<"B">> >>

\* list(vars.CHORDS.keys()): NNS and the twelve lettered keys
ValidKeys == {"NNS"} \cup { LetteredKeys[n] : n \in 1..12 }

Digits      == {"1", "2", "3", "4", "5", "6", "7"}
Accidentals == {"#", "b"}

\* the scale-degree tokens: a digit 1-7, optionally preceded by # or b
DegreeTokens ==
    { << d >> : d \in Digits } \cup { << a, d >> : a \in Accidentals, d \in Digits }

KeyRoot(key) == (CHOOSE n \in 1..12 : LetteredKeys[n] = key) - 1

DegreeSemitone(d) ==
    CASE d = "1" -> 0 [] d = "2" -> 2 [] d = "3" -> 4 [] d = "4" -> 5
      [] d = "5" -> 7 [] d = "6" -> 9 [] d = "7" -> 11

TokenSemitone(tok) ==
    IF Len(tok) = 1 THEN DegreeSemitone(tok[1])
    ELSE DegreeSemitone(tok[2]) + (IF tok[1] = "b" THEN 11 ELSE 1)

\* vars.CHORDS[key][tok]; in key C: 1 -> C, b3 -> Eb.  NNS maps a token to itself.
CHORDS(key, tok) ==
    IF key = "NNS" THEN tok
    ELSE NoteNames[((KeyRoot(key) + TokenSemitone(tok)) % 12) + 1]

\* CHORD_REGEX1 = (^| )([#b]?)([1-7])([^ \n]*)(\n?) tried at position q for
\* the groups 1..4; the result is << >> when the pattern does not match there.
ChordBodyAt(s, q) ==
    LET f1 == IF /\ q + 1 <= Len(s)
                  /\ s[q] \in Accidentals
                  /\ s[q + 1] \in Digits
               THEN << s[q] >> ELSE << >>
        d  == q + Len(f1)
    IN  IF d > Len(s) \/ d < 1 THEN << >>
        ELSE IF s[d] \notin Digits THEN << >>
        ELSE LET sp == FindChar(s, " ", d + 1)
                 nl == FindChar(s, "\n", d + 1)
                 e  == IF sp < nl THEN sp ELSE nl
                 f4 == IF e <= Len(s) /\ s[e] = "\n" THEN << "\n" >> ELSE << >>
             IN  << f1, << s[d] >>, SubSeq(s, d + 1, e - 1), f4 >>

\* one match of CHORD_REGEX1 starting exactly at p: the five groups, or << >>
ChordMatchAt(s, p) ==
    LET atStart == IF p = 1 THEN ChordBodyAt(s, 1) ELSE << >>
        afterSp == IF p <= Len(s) /\ s[p] = " " THEN ChordBodyAt(s, p + 1) ELSE << >>
    IN  IF atStart # << >> THEN << << >> >> \o atStart
        ELSE IF afterSp # << >> THEN << << " " >> >> \o afterSp
        ELSE << >>

RECURSIVE ChordFindAllFrom(_, _)
ChordFindAllFrom(s, p) ==
    IF p > Len(s) THEN << >>
    ELSE LET m == ChordMatchAt(s, p)
         IN  IF m = << >> THEN ChordFindAllFrom(s, p + 1)
             ELSE << m >> \o ChordFindAllFrom(s, p + Len(Join(m)))

\* vars.CHORD_REGEX1.findall(s): the matches left to right, five groups each
CHORD_REGEX1(s) == ChordFindAllFrom(s, 1)

\* len(vars.CHORD_REGEX2.findall(s)) for s = "/" + bass, bass without "/":
\* CHORD_REGEX2 = /[#b]?[1-7], a bass that starts with a scale-degree token
CHORD_REGEX2(s) ==
    IF \E n \in 1..2 : n + 1 <= Len(s) /\ SubSeq(s, 2, n + 1) \in DegreeTokens
    THEN 1 ELSE 0

\* len(vars.CHORD_REGEX3.findall(s)) for s = "/" + bass, bass without "/":
\* CHORD_REGEX3 = /[#b]?[1-7].+, a scale-degree token with text after it
CHORD_REGEX3(s) ==
    IF \E n \in 1..2 : n + 1 < Len(s) /\ SubSeq(s, 2, n + 1) \in DegreeTokens
    THEN 1 ELSE 0

LabelWords == << <<"V","e","r","s","e">>, <<"C","h","o","r","u","s">>,
                 <<"I","n","t","r","o">>, <<"B","r","i","d","g","e">> >>

\* the first alternative of Verse|Chorus|Intro|Bridge that matches at p, or << >>
LabelAt(s, p) ==
    IF \E n \in 1..Len(LabelWords) : OccursAt(s, LabelWords[n], p)
    THEN LabelWords[CHOOSE n \in 1..Len(LabelWords) :
                        /\ OccursAt(s, LabelWords[n], p)
                        /\ \A n2 \in 1..(n - 1) : ~OccursAt(s, LabelWords[n2], p)]
    ELSE << >>

RECURSIVE LabelFindAllFrom(_, _)
LabelFindAllFrom(s, p) ==
    IF p > Len(s) THEN << >>
    ELSE LET w == LabelAt(s, p)
         IN  IF w = << >> THEN LabelFindAllFrom(s, p + 1)
             ELSE << w >> \o LabelFindAllFrom(s, p + Len(w))

\* vars.LABEL_REGEX.findall(s): every section-label word, left to right
LABEL_REGEX(s) == LabelFindAllFrom(s, 1)

IntroWord == << "I", "n", "t", "r", "o" >>

RECURSIVE FindStr(_, _, _)
\* position of the first occurrence of t in s at or after p, 0 when none
FindStr(s, t, p) ==
    IF p + Len(t) - 1 > Len(s) THEN 0
    ELSE IF OccursAt(s, t, p) THEN p ELSE FindStr(s, t, p + 1)

\* vars.INTRO_REGEX.findall(s), INTRO_REGEX = Intro.* : the intro marker and
\* the rest of the line
INTRO_REGEX(s) ==
    LET p == FindStr(s, IntroWord, 1)
    IN  IF p = 0 THEN << >> ELSE << SubSeq(s, p, Len(s)) >>

TitleOpen == << "T", "i", "t", "l", "e", "{" >>

\* vars.TITLE_REGEX.findall(s), TITLE_REGEX = (Title\{)([^}]*)(\})(.*) :
\* four groups per match; group 1 is the title text, group 3 the rest
TITLE_REGEX(s) ==
    LET p == FindStr(s, TitleOpen, 1)
        q == IF p = 0 THEN 0 ELSE FindChar(s, "}", p + Len(TitleOpen))
    IN  IF p = 0 \/ q > Len(s) THEN << >>
        ELSE << << TitleOpen, SubSeq(s, p + Len(TitleOpen), q - 1), << "}" >>,
                   SubSeq(s, q + 1, Len(s)) >> >>

-----------------------------------------------------------------------------
(* data_processing.format_line                                              *)

\* the one-character triangle glyph that format_line leaves out of widths
TRIANGLE == "triangle"

\* the values ["", " ", "\n"] that format_line treats as an empty field
Blank == { << >>, << " " >>, << "\n" >> }

RECURSIVE ReplaceEach(_, _, _, _)
\* for item in items: line = line.replace(item, before + item + after)
ReplaceEach(line, items, before, after) ==
    IF items = << >> THEN line
    ELSE ReplaceEach(Replace(line, Head(items), before \o Head(items) \o after),
                     Tail(items), before, after)

\* "Format intro in the title line"
IntroPhase(line) == ReplaceEach(line, INTRO_REGEX(line), HFILL_TEXTBF, CLOSE2)

\* "Format title"
TitlePhase(line) ==
    LET title_matches == TITLE_REGEX(line)
    IN  IF Len(title_matches) > 0
        THEN UNDERLINE_BIGTITLE \o title_matches[1][2] \o CLOSE2 \o title_matches[1][4]
        ELSE line

\* "Add bold for verse/chorus labels"
LabelPhase(line) == ReplaceEach(line, LABEL_REGEX(line), TEXTBF, CLOSE1)

\* chord_matches: findall on the line with "(" and ")" removed
ChordMatches(line) == CHORD_REGEX1(Without(Without(line, "("), ")"))

\* the inversion test of one field 3 that contains "/"
BadInversion(f3) ==
    LET splits == Split(f3, "/")
    IN  \/ CHORD_REGEX2(<< "/" >> \o splits[2]) = 0
        \/ CHORD_REGEX3(<< "/" >> \o splits[2]) = 1
        \/ Count(f3, << "/" >>) > 1

\* One pass of "for item in chord_matches" over item, i = 0..4: the texts
\* original_chord and edited_chord, the errors appended, remove_full_space.
\* The continue at an invalid inversion leaves the i = 3 step only.
Transpose(item, key, line_num) ==
    LET f0 == item[1]
        f1 == item[2]
        f2 == item[3]
        f3 == item[4]
        f4 == item[5]
        remove_partial_space == 0
        \* i == 1
        tr1 == IF key = "NNS" THEN << >> ELSE CHORDS(key, f1 \o f2)
        ed1 == IF key = "NNS"
               THEN IF f1 \notin Blank
                    THEN TS \o THIN \o Spaces(Len(Without(f1, TRIANGLE)))
                            \o CLOSE1 \o f1 \o CLOSE1
                    ELSE << >>
               ELSE tr1
        rm1 == IF key # "NNS" /\ Len(tr1) > 1 THEN 1 ELSE 0
        \* i == 2
        tr2 == IF key = "NNS" THEN CHORDS(key, f2) ELSE << >>
        rm2 == IF key = "NNS" /\ Len(tr2) > 1 THEN 1 ELSE 0
        \* i == 3
        has3   == f3 \notin Blank
        slash  == has3 /\ Contains(f3, << "/" >>)
        bad    == slash /\ BadInversion(f3)
        splits == Split(f3, "/")
        tr3    == IF slash /\ ~bad THEN CHORDS(key, splits[2]) ELSE << >>
        rm3    == IF slash /\ ~bad /\ Len(tr3) > Len(splits[2]) THEN 1 ELSE 0
        item3  == IF slash /\ ~bad THEN splits[1] \o << "/" >> \o tr3 ELSE f3
        count  == Len(Without(item3, TRIANGLE)) - remove_partial_space
        ed3    == IF has3 /\ ~bad
                  THEN TS \o item3 \o THIN \o Spaces(count) \o CLOSE2
                  ELSE << >>
        remove_full_space == rm1 + rm2 + rm3
    IN  [ original |-> Join(item) \o (IF remove_full_space = 1 THEN << " " >> ELSE << >>),
          edited   |-> f0 \o ed1 \o tr2 \o ed3 \o f4,
          errors   |-> IF bad
                       THEN << [chord |-> Join(item), line_num |-> line_num] >>
                       ELSE << >>,
          remove_full_space |-> remove_full_space ]

InSeq(x, sq) == \E n \in 1..Len(sq) : sq[n] = x

RECURSIVE ChordLoop(_, _, _, _, _)
\* "for item in chord_matches": chords without duplicates, and chord_errors
ChordLoop(matches, key, line_num, chords, errors) ==
    IF matches = << >> THEN [chords |-> chords, errors |-> errors]
    ELSE LET t    == Transpose(Head(matches), key, line_num)
             pair == << t.original, t.edited >>
         IN  ChordLoop(Tail(matches), key, line_num,
                       IF InSeq(pair, chords) THEN chords ELSE Append(chords, pair),
                       errors \o t.errors)

ChordPhase(line, key, line_num) ==
    ChordLoop(ChordMatches(line), key, line_num, << >>, << >>)

\* line = f"{line} ".replace(chord[0], chord[1]).rstrip()
ReplaceChord(line, chord) == RStrip(Replace(line \o << " " >>, chord[1], chord[2]))

RECURSIVE ReplaceChords(_, _)
\* "for chord in chords"
ReplaceChords(line, chords) ==
    IF chords = << >> THEN line
    ELSE ReplaceChords(ReplaceChord(line, Head(chords)), Tail(chords))

\* format_line(line, line_num, key): the dictionary it returns
format_line(line, line_num, key) ==
    LET labelled == LabelPhase(TitlePhase(IntroPhase(line)))
        c        == ChordPhase(labelled, key, line_num)
    IN  [ edits |-> ReplaceChords(labelled, c.chords), errors |-> c.errors ]

-----------------------------------------------------------------------------
(* One format_line call, phase by phase.                                    *)

\* the pieces that input lines are put together from
Segments ==
    { << "1" >>, << "b", "3" >>, << "1", "/", "3" >>, << "2", "/", "4", "5" >>,
      << "1", "/", "3", "/", "5" >>, << " " >>, << "(" >>, << ")" >>, << "x" >>,
      << "x", "1" >>,
      << "V", "e", "r", "s", "e" >>, << "I", "n", "t", "r", "o" >>,
      << "T", "i", "t", "l", "e", "{", "x", "}" >> }

RECURSIVE LinesOf(_)
\* every concatenation of at most n segments
LinesOf(n) ==
    IF n = 0 THEN { << >> }
    ELSE LET shorter == LinesOf(n - 1)
         IN  shorter \cup { l \o sg : l \in shorter, sg \in Segments }

\* the keys format_line is driven with
FormatKeys == {"NNS", "C", "Ab"}

IdleFrame == [ pc |-> "idle", raw |-> << >>, line |-> << >>, line_num |-> 0,
               key |-> "NNS", labelled |-> << >>, chord_matches |-> << >>,
               chords |-> << >>, chord_errors |-> << >>, next |-> 0 ]

IdleMain ==
    /\ pc = "idle"
    /\ keys = << >>
    /\ file_contents = << >>
    /\ kidx = 0
    /\ lidx = 0
    /\ i = 0
    /\ next_line_after_intro = FALSE
    /\ formatted_lines = << >>
    /\ chord_errors = << >>
    /\ calls = << >>
    /\ stdout = << >>
    /\ documents = << >>

\* the lines read_file_contents can deliver: line.rstrip() of a line of text
ReadLines == { l \in LinesOf(MaxSegs) : RStrip(l) = l }

\* format_line has just been called with (line, line_num, key)
InitFormat ==
    /\ \E line \in ReadLines, line_num \in {0, 1}, key \in FormatKeys :
          fl = [ IdleFrame EXCEPT !.pc = "intro", !.raw = line, !.line = line,
                                  !.line_num = line_num, !.key = key ]
    /\ IdleMain

\* data_processing.py:52-55
FormatIntro ==
    /\ fl.pc = "intro"
    /\ fl' = [ fl EXCEPT !.pc = "title", !.line = IntroPhase(fl.line) ]
    /\ UNCHANGED mainVars

\* data_processing.py:57-62
FormatTitle ==
    /\ fl.pc = "title"
    /\ fl' = [ fl EXCEPT !.pc = "label", !.line = TitlePhase(fl.line) ]
    /\ UNCHANGED mainVars

\* data_processing.py:64-67
FormatLabel ==
    /\ fl.pc = "label"
    /\ fl' = [ fl EXCEPT !.pc = "chords", !.line = LabelPhase(fl.line),
                         !.labelled = LabelPhase(fl.line) ]
    /\ UNCHANGED mainVars

\* data_processing.py:69-127
FormatChords ==
    /\ fl.pc = "chords"
    /\ LET c == ChordPhase(fl.line, fl.key, fl.line_num)
       IN  fl' = [ fl EXCEPT !.pc = "replace",
                             !.chord_matches = ChordMatches(fl.line),
                             !.chords = c.chords,
                             !.chord_errors = c.errors,
                             !.next = 1 ]
    /\ UNCHANGED mainVars

\* data_processing.py:130-131, one iteration
FormatReplace ==
    /\ fl.pc = "replace"
    /\ fl.next <= Len(fl.chords)
    /\ fl' = [ fl EXCEPT !.line = ReplaceChord(fl.line, fl.chords[fl.next]),
                         !.next = fl.next + 1 ]
    /\ UNCHANGED mainVars

\* data_processing.py:130,136: the loop is over, return
FormatReturn ==
    /\ fl.pc = "replace"
    /\ fl.next > Len(fl.chords)
    /\ fl' = [ fl EXCEPT !.pc = "done" ]
    /\ UNCHANGED mainVars

NextFormat ==
    \/ FormatIntro
    \/ FormatTitle
    \/ FormatLabel
    \/ FormatChords
    \/ FormatReplace
    \/ FormatReturn

Spec == InitFormat /\ [][NextFormat]_vars

\* the phases compose to format_line
ReturnIsFormatLine ==
    fl.pc = "done" =>
        /\ fl.line = format_line(fl.raw, fl.line_num, fl.key).edits
        /\ fl.chord_errors = format_line(fl.raw, fl.line_num, fl.key).errors

-----------------------------------------------------------------------------
(* data_processing.validate_keys and cli.main                               *)

\* validate_keys looking at the first key only
bad_keys_first_only(ks) ==
    IF ks # << >> /\ ks[1] \notin ValidKeys THEN << ks[1] >> ELSE << >>

\* validate_keys: the keys that are not in list(vars.CHORDS.keys())
bad_keys(ks) == SelectSeq(ks, LAMBDA key : key \notin ValidKeys)

\* the parameters in the signature of format_line
FormatLineParameters == {"line", "line_num", "key", "debug"}

\* the keyword arguments of the call of format_line in main
CallKeywords == {"line", "line_num", "key", "next_line_after_intro", "debug"}

\* results.get(name) on the dictionary format_line returns
ResultsGet(results, name) ==
    IF name \in DOMAIN results THEN results[name] ELSE "None"

\* len(chord_errors) > 1
HasChordErrorsMoreThanOne(errors) == Len(errors) > 1

\* len(chord_errors) > 0
HasChordErrors(errors) == Len(errors) > 0

\* vars.CHORDS[key] is looked up for every chord match when key is not NNS
RaisesKeyError(line, key) ==
    /\ key \notin ValidKeys
    /\ ChordMatches(LabelPhase(TitlePhase(IntroPhase(line)))) # << >>

\* the keys and chart lines main is driven with
KeyChoices == {"NNS", "C", "H"}
ChartLines == { << "1" >>, << "2", "/", "4", "5" >>, << "x" >> }

RECURSIVE SeqsUpTo(_, _)
\* the sequences over S of length at most n
SeqsUpTo(S, n) ==
    IF n = 0 THEN { << >> }
    ELSE LET shorter == SeqsUpTo(S, n - 1)
         IN  shorter \cup { Append(sq, x) : sq \in shorter, x \in S }

\* cli.py:81,89: the chart has been read and the key list split
InitMain ==
    /\ fl = IdleFrame
    /\ pc = "validate"
    /\ keys \in SeqsUpTo(KeyChoices, MaxKeys) \ { << >> }
    /\ file_contents \in SeqsUpTo(ChartLines, MaxLines)
    /\ kidx = 0
    /\ lidx = 0
    /\ i = 0
    /\ next_line_after_intro = "False"
    /\ formatted_lines = << >>
    /\ chord_errors = << >>
    /\ calls = << >>
    /\ stdout = << >>
    /\ documents = << >>

\* cli.py:90, data_processing.py:24-30
ValidateKeys ==
    /\ pc = "validate"
    /\ IF Len(bad_keys(keys)) > 0
       THEN /\ stdout' = Append(stdout, [kind |-> "invalid_keys", body |-> bad_keys(keys)])
            /\ pc' = "exit1"
            /\ UNCHANGED kidx
       ELSE /\ pc' = "for_key"
            /\ kidx' = 1
            /\ UNCHANGED stdout
    /\ UNCHANGED << fl, keys, file_contents, lidx, i, next_line_after_intro,
                    formatted_lines, chord_errors, calls, documents >>

\* cli.py:93-97: the next key of "for key in keys"
ForKey ==
    /\ pc = "for_key"
    /\ kidx <= Len(keys)
    /\ formatted_lines' = << >>
    /\ chord_errors' = << >>
    /\ i' = 0
    /\ next_line_after_intro' = "False"
    /\ lidx' = 1
    /\ pc' = "for_line"
    /\ UNCHANGED << fl, keys, file_contents, kidx, calls, stdout, documents >>

\* cli.py:93: the keys are exhausted, main returns
MainReturn ==
    /\ pc = "for_key"
    /\ kidx > Len(keys)
    /\ pc' = "done"
    /\ UNCHANGED << fl, keys, file_contents, kidx, lidx, i, next_line_after_intro,
                    formatted_lines, chord_errors, calls, stdout, documents >>

\* cli.py:98-109: one line of "for line in file_contents".  parameters is the
\* set of parameter names of the format_line that is called.
ForLine(parameters) ==
    /\ pc = "for_line"
    /\ lidx <= Len(file_contents)
    /\ LET line == file_contents[lidx]
           key  == keys[kidx]
       IN  /\ calls' = Append(calls, [ kidx |-> kidx, lidx |-> lidx, line |-> line,
                                       line_num |-> i, key |-> key,
                                       next_line_after_intro |-> next_line_after_intro ])
           /\ IF ~(CallKeywords \subseteq parameters)
              THEN /\ pc' = "TypeError"
                   /\ UNCHANGED << lidx, i, next_line_after_intro,
                                   formatted_lines, chord_errors >>
              ELSE IF RaisesKeyError(line, key)
              THEN /\ pc' = "KeyError"
                   /\ UNCHANGED << lidx, i, next_line_after_intro,
                                   formatted_lines, chord_errors >>
              ELSE LET results == format_line(line, i, key)
                   IN  /\ next_line_after_intro' =
                              ResultsGet(results, "next_line_after_intro")
                       /\ formatted_lines' =
                              Append(formatted_lines, ResultsGet(results, "edits"))
                       /\ chord_errors' = chord_errors \o ResultsGet(results, "errors")
                       /\ i' = i + 1
                       /\ lidx' = lidx + 1
                       /\ UNCHANGED pc
    /\ UNCHANGED << fl, keys, file_contents, kidx, stdout, documents >>

\* cli.py:111-129: the lines are exhausted; report the errors and exit, or
\* create the document and go on to the next key
EndOfPass ==
    /\ pc = "for_line"
    /\ lidx > Len(file_contents)
    /\ IF HasChordErrors(chord_errors)
       THEN /\ stdout' = Append(stdout, [kind |-> "chord_errors", body |-> chord_errors])
            /\ pc' = "exit1"
            /\ UNCHANGED << kidx, documents >>
       ELSE /\ documents' = Append(documents, [ key |-> keys[kidx],
                                                file_contents |-> formatted_lines ])
            /\ kidx' = kidx + 1
            /\ pc' = "for_key"
            /\ UNCHANGED stdout
    /\ UNCHANGED << fl, keys, file_contents, lidx, i, next_line_after_intro,
                    formatted_lines, chord_errors, calls >>

\* main as it runs: format_line is called with the signature it has
NextMain ==
    \/ ValidateKeys
    \/ ForKey
    \/ MainReturn
    \/ ForLine(FormatLineParameters)
    \/ EndOfPass

SpecMain == InitMain /\ [][NextMain]_vars

\* The loop of main over format_line as data_processing defines it, with the
\* call taken to bind (a format_line whose signature has every keyword of the
\* call).  NextMain stops at the first call; this relation shows what the
\* lines 106-129 of main do with the dictionaries format_line returns.
NextPass ==
    \/ ValidateKeys
    \/ ForKey
    \/ MainReturn
    \/ ForLine(CallKeywords)
    \/ EndOfPass

SpecPass == InitMain /\ [][NextPass]_vars

-----------------------------------------------------------------------------
(* Properties of format_line (specification Spec).                          *)

MatchIndexes == 1..Len(fl.chord_matches)

MatchText(n) == Join(fl.chord_matches[n])

Transposed(n) == Transpose(fl.chord_matches[n], fl.key, fl.line_num)

ChordsDone == fl.pc \in {"replace", "done"}

\* C1: a chord match whose inversion fails validation gets a chord error
\* {chord, line_num}, no (original, replacement) pair, and its text stays
\* in the returned line as it was.
C1_InvalidInversionAborted ==
    fl.pc = "done" =>
        \A n \in MatchIndexes :
            Transposed(n).errors # << >> =>
                /\ InSeq([chord |-> MatchText(n), line_num |-> fl.line_num],
                         fl.chord_errors)
                /\ \A k \in 1..Len(fl.chords) :
                       fl.chords[k][1] \notin { MatchText(n), MatchText(n) \o << " " >> }
                /\ Contains(fl.labelled, MatchText(n)) => Contains(fl.line, MatchText(n))

\* C7: in a lettered key a chord takes one following space with it exactly
\* when its translated root is longer than accidental plus digit, and never
\* more than one space.
C7_SpaceRemovedIffRootLonger ==
    (ChordsDone /\ fl.key # "NNS") =>
        \A n \in MatchIndexes :
            LET root == fl.chord_matches[n][2] \o fl.chord_matches[n][3]
                removed == Len(Transposed(n).original) - Len(MatchText(n))
            IN  /\ removed <= 1
                /\ (removed = 1) <=> (Len(CHORDS(fl.key, root)) > Len(root))

\* the number of \textbf{ that stand directly before position p of s
RECURSIVE BoldsBefore(_, _)
BoldsBefore(s, p) ==
    IF OccursAt(s, TEXTBF, p - Len(TEXTBF))
    THEN 1 + BoldsBefore(s, p - Len(TEXTBF))
    ELSE 0

\* C8: after the label phase every section-label word of the line stands in
\* exactly one bold markup.
C8_LabelsBoldOnce ==
    fl.pc = "chords" =>
        \A p \in 1..Len(fl.line) :
            LabelAt(fl.line, p) # << >> => BoldsBefore(fl.line, p) = 1

\* C9: the replacement text of every chord match that raised no error is in
\* the returned line.
C9_EveryChordReplaced ==
    fl.pc = "done" =>
        \A n \in MatchIndexes :
            Transposed(n).errors = << >> => Contains(fl.line, Transposed(n).edited)

RECURSIVE SumOver(_, _)
\* the sum of f[n] over the n in S
SumOver(f, S) ==
    IF S = {} THEN 0
    ELSE LET n == CHOOSE x \in S : TRUE IN f[n] + SumOver(f, S \ {n})

\* C10: a substitution of one pair rewrites only text of chord matches: it
\* finds its original text no more often in the line than the texts of the
\* chord matches hold it.
C10_OnlyChordTextRewritten ==
    (fl.pc = "replace" /\ fl.next <= Len(fl.chords)) =>
        LET original == fl.chords[fl.next][1]
        IN  Count(fl.line \o << " " >>, original)
                <= SumOver([n \in MatchIndexes |-> Count(Transposed(n).original, original)],
                           MatchIndexes)

-----------------------------------------------------------------------------
(* Properties of main (specifications SpecMain and SpecPass).               *)

KeyIndexes  == 1..Len(keys)
LineIndexes == 1..Len(file_contents)

HasUnknownKey == \E k \in KeyIndexes : keys[k] \notin ValidKeys

\* some line of the chart has an invalid chord when formatted for key
ChartHasChordErrors(key) ==
    \E n \in LineIndexes : format_line(file_contents[n], 0, key).errors # << >>

RECURSIVE ErrorsNumbered(_, _)
\* the chord errors of the lines 1..n of the chart, line n numbered n
ErrorsNumbered(key, n) ==
    IF n = 0 THEN << >>
    ELSE ErrorsNumbered(key, n - 1) \o format_line(file_contents[n], n, key).errors

Terminated == pc \in {"done", "exit1", "TypeError", "KeyError"}

\* C2: when the run is over, every requested key has had format_line called
\* for every line of the chart, whatever the other keys' passes ended in.
C2_EveryKeyGetsItsPass ==
    (Terminated /\ ~HasUnknownKey) =>
        \A k \in KeyIndexes : \A n \in LineIndexes :
            \E c \in 1..Len(calls) : calls[c].kidx = k /\ calls[c].lidx = n

\* C3: a document exists only for a key whose pass found no chord error; a
\* pass that found one ends in the error listing and leaves no document.
C3_DocumentOnlyWithoutErrors ==
    /\ \A d \in 1..Len(documents) : ~ChartHasChordErrors(documents[d].key)
    /\ (pc \in {"for_key", "done"}) =>
           /\ Len(documents) = kidx - 1
           /\ \A k \in 1..(kidx - 1) : documents[k].key = keys[k]
    /\ (pc = "for_line" /\ lidx > Len(file_contents)) =>
           (chord_errors # << >> <=> ChartHasChordErrors(keys[kidx]))
    /\ (pc = "exit1" /\ ~HasUnknownKey) =>
           /\ ChartHasChordErrors(keys[kidx])
           /\ stdout = << [kind |-> "chord_errors", body |-> chord_errors] >>
           /\ chord_errors # << >>
           /\ \A d \in 1..Len(documents) : documents[d].key # keys[kidx]

C3_Witness ==
    /\ pc = "exit1"
    /\ chord_errors # << >>
    /\ stdout = << [kind |-> "chord_errors", body |-> chord_errors] >>
    /\ Len(file_contents) = MaxLines
    /\ documents = << >>

\* C4: the error listing of a key pass gives every chord error the number of
\* its line counted from 1.
C4_LineNumbersFromOne ==
    \A e \in 1..Len(stdout) :
        stdout[e].kind = "chord_errors" =>
            stdout[e].body = ErrorsNumbered(keys[kidx], Len(file_contents))

\* C5: with an unknown key in the list the run ends in validate_keys, before
\* any format_line call and any document; without one it goes on.
C5_KeyValidationFailFast ==
    /\ HasUnknownKey =>
           /\ pc \in {"validate", "exit1"}
           /\ calls = << >>
           /\ documents = << >>
           /\ pc = "exit1" =>
                  stdout = << [kind |-> "invalid_keys",
                               body |-> SelectSeq(keys, LAMBDA key : key \notin ValidKeys)] >>
    /\ ~HasUnknownKey =>
           /\ \A e \in 1..Len(stdout) : stdout[e].kind # "invalid_keys"
           /\ pc = "validate" => (calls = << >> /\ documents = << >> /\ stdout = << >>)

C5_Witness ==
    /\ pc = "exit1"
    /\ HasUnknownKey
    /\ keys[1] \in ValidKeys
    /\ file_contents # << >>
    /\ calls = << >>

\* C6: format_line takes the flag; the first line of a key pass gets false
\* and every later line the boolean the previous call returned.
C6_FlagThreaded ==
    /\ pc # "TypeError"
    /\ \A c \in 1..Len(calls) :
           /\ calls[c].next_line_after_intro \in {"True", "False"}
           /\ calls[c].lidx = 1 => calls[c].next_line_after_intro = "False"

====
